---- MODULE Spec2Model ----
(***************************************************************************)
(* Model of lib/ansible/modules/cloud/amazon/service_discovery_namespace.py *)
(* One invocation of main() is a process p; every call of the boto3        *)
(* servicediscovery client is one atomic step, so that the asynchronous     *)
(* remote (operations that complete on their own) interleaves with it.      *)
(* Spec runs one invocation; SpecTwice runs a second one, with the same     *)
(* arguments, after the first has ended.                                    *)
(***************************************************************************)
EXTENDS Integers, Sequences, FiniteSets, TLC

VARIABLES
    params,        \* module.params of each invocation
    pc,            \* position of each invocation in main()
    namespaces,    \* remote: the namespaces that exist
    operations,    \* remote: the create operations, by operation id
    existing,      \* main: existing (the matches of the lookup)
    operation,     \* create_*_dns_namespace: operation (0 = not set)
    attempts,      \* botocore Waiter.wait: num_attempts
    namespace_id,  \* create_*_dns_namespace: namespace_id (0 = not set)
    result,        \* how the invocation ended: exit_json, fail_json, ...
    calls,         \* history: the client calls issued, in order
    snapshot,      \* history: the remote namespaces when the lookup listed
    mode           \* "single": one invocation; "sequential": the second
                   \* starts when the first has ended; "concurrent"

vars == <<params, pc, namespaces, operations, existing, operation, attempts,
          namespace_id, result, calls, snapshot, mode>>

-----------------------------------------------------------------------------
(* Bounds and value sets *)

NumPre == 2                  \* namespaces the remote may hold at the start
Procs == {1, 2}              \* invocations
None == "None"               \* Python None of a str-valued parameter
Names == {"n1", "n2"}        \* namespace names on the remote
ReqName == "n1"              \* the name the caller asks for
Types == {"DNS_PRIVATE", "DNS_PUBLIC"}

\* Python truthiness of a str-or-None value
Truthy(v) == v \notin {None, ""}

\* sd_waiter_config["waiters"]["NamespaceCreated"]
maxAttempts == 10
acceptorExpected == "SUCCESS"

\* argument_spec of main(): the values each parameter can take
ParamSpace ==
    [state : {"present", "absent"},
     type : Types \cup {None},
     name : {ReqName},
     creator_request_id : {None, "r"},
     description : {None, "d"},
     wait : BOOLEAN,
     vpc_id : {None, "vpc-1"}]

\* required_if of AnsibleAWSModule(...) in main(): <<key, value, requirements>>
required_if ==
    << <<"state", "present", {"type"}>>,
       <<"type", "private", {"vpc_id"}>> >>

\* AnsibleModule._check_required_if: a requirement applies when params[key]
\* equals the value, and then every listed parameter must be given
check_required_if(prm) ==
    \A i \in 1..Len(required_if) :
        prm[required_if[i][1]] = required_if[i][2]
            => \A r \in required_if[i][3] : prm[r] # None

-----------------------------------------------------------------------------
(* Values and dict transformations *)

\* a datetime value and what str() makes of it
Datetime(t) == [kind |-> "datetime", at |-> t]
Str(v) == [kind |-> "str", at |-> v.at]

\* ServiceDiscoveryNamespace.jsonize: stringify service['createdAt'] and the
\* createdAt/updatedAt of each of service['deployments'] and service['events']
jsonizeItem(d, keys) ==
    [k \in DOMAIN d |-> IF k \in keys THEN Str(d[k]) ELSE d[k]]

jsonize(service) ==
    [k \in DOMAIN service |->
        IF k = "createdAt" THEN Str(service[k])
        ELSE IF k = "deployments"
            THEN [i \in DOMAIN service[k] |->
                     jsonizeItem(service[k][i], {"createdAt", "updatedAt"})]
        ELSE IF k = "events"
            THEN [i \in DOMAIN service[k] |->
                     jsonizeItem(service[k][i], {"createdAt"})]
        ELSE service[k]]

\* camel_dict_to_snake_dict on the keys that occur
SnakeKey ==
    [Id |-> "id", Name |-> "name", Type |-> "type",
     CreateDate |-> "create_date", createdAt |-> "created_at",
     OperationId |-> "operation_id"]

camel_dict_to_snake_dict(d) ==
    [s \in {SnakeKey[k] : k \in DOMAIN d} |->
        d[CHOOSE k \in DOMAIN d : SnakeKey[k] = s]]

-----------------------------------------------------------------------------
(* The remote service as the servicediscovery client shows it *)

\* a set of namespaces as a list, in id order
RECURSIVE ById(_)
ById(S) ==
    IF S = {} THEN <<>>
    ELSE LET m == CHOOSE n \in S : \A o \in S : n.Id <= o.Id
         IN <<m>> \o ById(S \ {m})

\* faulty variant: the type filter is never sent
list_namespaces_filters_none(type) == <<>>

\* ansible_dict_to_boto3_filter_list({'TYPE': type}) / [] of list_namespaces
list_namespaces_filters(type) ==
    IF Truthy(type) THEN <<[Name |-> "TYPE", Values |-> <<type>>]>> ELSE <<>>

\* ListNamespaces: the namespaces that pass every filter
ListNamespacesResponse(filters) ==
    [Namespaces |->
        ById({n \in namespaces :
                \A i \in 1..Len(filters) :
                    filters[i].Name = "TYPE" => n.Type = filters[i].Values[1]})]

\* GetNamespace: the detail of a namespace, its creation date a datetime
GetNamespaceResponse(id) ==
    LET n == CHOOSE n \in namespaces : n.Id = id
    IN [Namespace |-> [Id |-> n.Id, Name |-> n.Name, Type |-> n.Type,
                       CreateDate |-> Datetime(n.Id)]]

\* parameters the Create*DnsNamespace requests accept, and those they require
CreateAccepts(api) ==
    IF api = "CreatePrivateDnsNamespace"
    THEN {"Name", "CreatorRequestId", "Description", "Vpc"}
    ELSE {"Name", "CreatorRequestId", "Description"}
CreateRequires(api) ==
    IF api = "CreatePrivateDnsNamespace" THEN {"Name", "Vpc"} ELSE {"Name"}

\* the client validates a request before it is sent
ParamsValid(api, args) ==
    /\ DOMAIN args \subseteq CreateAccepts(api)
    /\ CreateRequires(api) \subseteq DOMAIN args
    /\ \A k \in DOMAIN args : args[k] # None

\* id of the namespace that operation number i creates
TargetOf(i) == NumPre + i

-----------------------------------------------------------------------------
(* History and outcomes *)

\* a call, its arguments and how it ended: "ok", the exception it raised, or
\* for a poll of the waiter what its acceptor made of the response
Call(api, args, outcome) == [api |-> api, args |-> args, outcome |-> outcome]
Issue(p, api, args, outcome) ==
    calls' = [calls EXCEPT ![p] = Append(@, Call(api, args, outcome))]
Raised(c) == c.outcome \in {"ClientError", "ParamValidationError"}

CallsOf(p, api) == SelectSeq(calls[p], LAMBDA c : c.api = api)
CreateApis == {"CreatePublicDnsNamespace", "CreatePrivateDnsNamespace"}
CreateCalls(p) == SelectSeq(calls[p], LAMBDA c : c.api \in CreateApis)

NoKwargs == [k \in {} |-> TRUE]
NoResult == [kind |-> "none", kwargs |-> NoKwargs, cause |-> "none"]

\* module.exit_json(**kwargs)
exit_json(kwargs) == [kind |-> "exit", kwargs |-> kwargs, cause |-> "none"]

\* module.fail_json(msg="Exception '" + name + "': " + str(e)) of main()
fail_json(name, e) ==
    [kind |-> "fail", kwargs |-> [msg |-> [name |-> name, error |-> e]],
     cause |-> e]

\* AnsibleModule rejects the arguments before main() goes on
invalid_arguments == [kind |-> "invalid", kwargs |-> NoKwargs, cause |-> "arguments"]

\* an exception that no handler of main() catches
unhandled(e) == [kind |-> "error", kwargs |-> NoKwargs, cause |-> e]

Finish(p, r) ==
    /\ pc' = [pc EXCEPT ![p] = "done"]
    /\ result' = [result EXCEPT ![p] = r]

Goto(p, label) ==
    /\ pc' = [pc EXCEPT ![p] = label]
    /\ UNCHANGED result

-----------------------------------------------------------------------------
(* ServiceDiscoveryNamespace *)

\* list_namespaces(type): one ListNamespaces call with the type filter
list_namespaces(type) == ListNamespacesResponse(list_namespaces_filters(type))

\* faulty variant: the name is not compared
get_namespaces_by_name_any(namespace_name, type) ==
    list_namespaces(type).Namespaces

\* get_namespaces_by_name: the listed namespaces whose Name is namespace_name
\* (the client's response is never an empty dict, so None is not returned)
get_namespaces_by_name(namespace_name, type) ==
    SelectSeq(list_namespaces(type).Namespaces,
              LAMBDA ns : ns.Name = namespace_name)

\* get_namespace: jsonize of the fetched 'Namespace'
get_namespace(namespace_id_) == jsonize(GetNamespaceResponse(namespace_id_).Namespace)

\* create_namespace: which create the type selects ("" when neither if fires)
create_api(type) ==
    IF type = "DNS_PRIVATE" THEN "CreatePrivateDnsNamespace"
    ELSE IF type = "DNS_PUBLIC" THEN "CreatePublicDnsNamespace"
    ELSE ""

\* params of create_public_dns_namespace / create_private_dns_namespace
create_params(api, prm) ==
    LET keys == {"Name"}
                \cup (IF api = "CreatePrivateDnsNamespace" THEN {"Vpc"} ELSE {})
                \cup (IF Truthy(prm.creator_request_id) THEN {"CreatorRequestId"} ELSE {})
                \cup (IF Truthy(prm.description) THEN {"description"} ELSE {})
    IN [k \in keys |->
            IF k = "Name" THEN prm.name
            ELSE IF k = "Vpc" THEN prm.vpc_id
            ELSE IF k = "CreatorRequestId" THEN prm.creator_request_id
            ELSE prm.description]

\* faulty variant: the existing namespace is reported as a change
exit_existing_changed(namespace) ==
    [changed |-> TRUE, namespace |-> camel_dict_to_snake_dict(namespace)]

\* main 319: exit_json(changed=False, namespace=camel_dict_to_snake_dict(namespace))
exit_existing(namespace) ==
    [changed |-> FALSE, namespace |-> camel_dict_to_snake_dict(namespace)]

\* main 328: exit_json(changed=True, namespace=camel_dict_to_snake_dict(namespace)),
\* namespace being what create_namespace returned
exit_created(namespace) ==
    [changed |-> TRUE, namespace |-> camel_dict_to_snake_dict(namespace)]

\* create_namespace 218: jsonize of what create_*_dns_namespace returned, the
\* fetched namespace with wait and the create response without
create_namespace_result(returned) == jsonize(returned)

Exists(id) == \E n \in namespaces : n.Id = id

-----------------------------------------------------------------------------
(* main() *)

\* the state before main() runs, for the given way of running the invocations
InitMode(m) ==
    /\ mode = m
    /\ params \in {f \in [Procs -> ParamSpace] : \A p \in Procs : f[p] = f[1]}
    /\ pc = [p \in Procs |-> "idle"]
    /\ namespaces \in
         UNION {{ {[Id |-> i, Name |-> f[i][1], Type |-> f[i][2]] : i \in S} :
                    f \in [S -> Names \X Types]} : S \in SUBSET (1..NumPre)}
    /\ operations = <<>>
    /\ existing = [p \in Procs |-> <<>>]
    /\ operation = [p \in Procs |-> 0]
    /\ attempts = [p \in Procs |-> 0]
    /\ namespace_id = [p \in Procs |-> 0]
    /\ result = [p \in Procs |-> NoResult]
    /\ calls = [p \in Procs |-> <<>>]
    /\ snapshot = [p \in Procs |-> {}]

\* one invocation of the module
Init == InitMode("single")

\* two invocations with the same arguments, one after the other
InitTwice == InitMode("sequential")

\* the arguments of two invocations that run at the same time on the same
\* name and type: the first asks for present, the second for present or absent
ConcurrentParams ==
    {f \in [Procs -> ParamSpace] :
        /\ f[1].state = "present"
        /\ \A p \in Procs :
             /\ f[p].type = f[1].type /\ f[p].type # None
             /\ f[p].vpc_id = "vpc-1"
             /\ f[p].description = None
             /\ f[p].creator_request_id = None}

\* two invocations that run at the same time, against a remote that holds no
\* namespace of the requested name
InitConcurrent ==
    /\ mode = "concurrent"
    /\ params \in ConcurrentParams
    /\ pc = [p \in Procs |-> "idle"]
    /\ namespaces \in
         UNION {{ {[Id |-> i, Name |-> f[i][1], Type |-> f[i][2]] : i \in S} :
                    f \in [S -> (Names \ {ReqName}) \X Types]} :
                S \in SUBSET (1..NumPre)}
    /\ operations = <<>>
    /\ existing = [p \in Procs |-> <<>>]
    /\ operation = [p \in Procs |-> 0]
    /\ attempts = [p \in Procs |-> 0]
    /\ namespace_id = [p \in Procs |-> 0]
    /\ result = [p \in Procs |-> NoResult]
    /\ calls = [p \in Procs |-> <<>>]
    /\ snapshot = [p \in Procs |-> {}]

\* main 296-312: AnsibleAWSModule(...) validates the arguments
Start(p) ==
    /\ pc[p] = "idle"
    /\ \/ p = 1
       \/ mode = "concurrent"
       \/ mode = "sequential" /\ \A q \in Procs : q < p => pc[q] = "done"
    /\ IF check_required_if(params[p])
       THEN Goto(p, "lookup")
       ELSE Finish(p, invalid_arguments)
    /\ UNCHANGED <<params, namespaces, operations, existing, operation,
                   attempts, namespace_id, calls, snapshot, mode>>

\* variant with coordination the code does not have: an invocation that finds
\* no match gives up when a create of another invocation is already known to
\* the remote
AfterLookupPresent_locked(p, found) ==
    IF Len(found) = 1 THEN Goto(p, "get_existing")
    ELSE IF Len(found) = 0
    THEN (IF operations = <<>>
          THEN Goto(p, "create")
          ELSE Finish(p, fail_json(params[p].name, "Locked")))
    ELSE Finish(p, unhandled("TypeError"))

\* faulty variant: an existing namespace is created anew when the caller
\* gives a description
AfterLookupPresent_recreate(p, found) ==
    IF Len(found) = 1 /\ ~Truthy(params[p].description)
    THEN Goto(p, "get_existing")
    ELSE IF Len(found) <= 1 THEN Goto(p, "create")
    ELSE Finish(p, unhandled("TypeError"))

\* main 317-333: what follows the lookup when state is present
AfterLookupPresent(p, found) ==
    IF Len(found) = 1 THEN Goto(p, "get_existing")
    ELSE IF Len(found) = 0 THEN Goto(p, "create")
    ELSE Finish(p, unhandled("TypeError"))      \* exit_json(**existing), a list

\* faulty variant: an empty lookup is taken for 'already absent'
AfterLookupAbsent_noop(p, found) ==
    IF Len(found) = 0
    THEN Finish(p, exit_json([changed |-> FALSE]))
    ELSE Goto(p, "delete")

\* main 338: existing[0] when state is absent
AfterLookupAbsent(p, found) ==
    IF Len(found) = 0
    THEN Finish(p, fail_json(params[p].name, "IndexError"))
    ELSE Goto(p, "delete")

\* main 316 / 337: existing = sd_mgr.get_namespaces_by_name(name, type)
Lookup(p) ==
    /\ pc[p] = "lookup"
    /\ \E fault \in BOOLEAN :
         IF fault
         THEN /\ Issue(p, "ListNamespaces",
                       [Filters |-> list_namespaces_filters(params[p].type)],
                       "ClientError")
              /\ Finish(p, fail_json(params[p].name, "ClientError"))
              /\ UNCHANGED <<existing, snapshot>>
         ELSE LET found == get_namespaces_by_name(params[p].name, params[p].type)
              IN /\ Issue(p, "ListNamespaces",
                          [Filters |-> list_namespaces_filters(params[p].type)],
                          "ok")
                 /\ snapshot' = [snapshot EXCEPT ![p] = namespaces]
                 /\ existing' = [existing EXCEPT ![p] = found]
                 /\ IF params[p].state = "present"
                    THEN AfterLookupPresent(p, found)
                    ELSE AfterLookupAbsent(p, found)
    /\ UNCHANGED <<params, namespaces, operations, operation, attempts,
                   namespace_id, mode>>

\* main 318-319: the one match is fetched and returned, changed=False
GetExisting(p) ==
    /\ pc[p] = "get_existing"
    /\ LET id == existing[p][1].Id
       IN \E fault \in BOOLEAN :
               IF fault \/ ~Exists(id)
               THEN /\ Issue(p, "GetNamespace", [Id |-> id], "ClientError")
                    /\ Finish(p, fail_json(params[p].name, "ClientError"))
               ELSE /\ Issue(p, "GetNamespace", [Id |-> id], "ok")
                    /\ Finish(p, exit_json(exit_existing(get_namespace(id))))
    /\ UNCHANGED <<params, namespaces, operations, existing, operation,
                   attempts, namespace_id, snapshot, mode>>

\* the remote's record of a create request it accepted
NewOperation(prm) ==
    [Status |-> "SUBMITTED", Name |-> prm.name, Type |-> prm.type,
     Target |-> TargetOf(Len(operations) + 1)]

\* main 322-328 with create_namespace and create_*_dns_namespace up to the
\* create call: the request is built and sent; without wait the response is
\* what main() reports as namespace
Create(p) ==
    /\ pc[p] = "create"
    /\ LET api == create_api(params[p].type)
           args == create_params(api, params[p])
           id == Len(operations) + 1
       IN IF api = ""
          THEN /\ Finish(p, fail_json(params[p].name, "UnboundLocalError"))
               /\ UNCHANGED <<operations, operation, calls>>
          ELSE \E fault \in BOOLEAN :
                    IF ~ParamsValid(api, args)
                    THEN /\ Issue(p, api, args, "ParamValidationError")
                         /\ Finish(p, fail_json(params[p].name, "ParamValidationError"))
                         /\ UNCHANGED <<operations, operation>>
                    ELSE IF fault
                    THEN /\ Issue(p, api, args, "ClientError")
                         /\ Finish(p, fail_json(params[p].name, "ClientError"))
                         /\ UNCHANGED <<operations, operation>>
                    ELSE /\ Issue(p, api, args, "ok")
                         /\ operations' = Append(operations, NewOperation(params[p]))
                         /\ operation' = [operation EXCEPT ![p] = id]
                         /\ IF params[p].wait
                            THEN Goto(p, "wait")
                            ELSE Finish(p, exit_json(exit_created(
                                    create_namespace_result([OperationId |-> id]))))
    /\ UNCHANGED <<params, namespaces, existing, attempts, namespace_id,
                   snapshot, mode>>

\* faulty variant: any status other than the initial one is taken for completion
Accepts_any_end(status) == IF status # "SUBMITTED" THEN "success" ELSE "waiting"

\* the acceptor of NamespaceCreated: path Operation.Status, expected SUCCESS
Accepts(status) == IF status = acceptorExpected THEN "success" ELSE "waiting"

\* faulty variant: a waiter without an attempt budget, which sleeps on once
\* the attempts are used up
WaiterNext_hangs(p, status, num_attempts) ==
    IF Accepts(status) = "success" THEN Goto(p, "get_operation")
    ELSE IF num_attempts >= maxAttempts
    THEN Goto(p, "sleep")
    ELSE Goto(p, "wait")

\* faulty variant: the poll that sees SUCCESS ends the invocation at once,
\* without the namespace being fetched
WaiterNext_skip_fetch(p, status, num_attempts) ==
    IF Accepts(status) = "success"
    THEN Finish(p, exit_json([changed |-> TRUE]))
    ELSE IF num_attempts >= maxAttempts
    THEN Finish(p, fail_json(params[p].name, "WaiterError"))
    ELSE Goto(p, "wait")

\* faulty variant: when the attempts are used up the wait returns as if it succeeded
WaiterNext_silent(p, status, num_attempts) ==
    IF Accepts(status) = "success" \/ num_attempts >= maxAttempts
    THEN Goto(p, "get_operation")
    ELSE Goto(p, "wait")

\* Waiter.wait after a response: the acceptor matched, the attempts are used
\* up (WaiterError), or the waiter sleeps and polls again
WaiterNext(p, status, num_attempts) ==
    IF Accepts(status) = "success" THEN Goto(p, "get_operation")
    ELSE IF num_attempts >= maxAttempts
    THEN Finish(p, fail_json(params[p].name, "WaiterError"))
    ELSE Goto(p, "wait")

\* one attempt of waiter.wait(OperationId=operation): GetOperation is called,
\* the acceptor looks for Operation.Status = SUCCESS, an error response or the
\* last attempt without success raises WaiterError
WaiterPoll(p) ==
    /\ pc[p] = "wait"
    /\ attempts' = [attempts EXCEPT ![p] = @ + 1]
    /\ \E fault \in BOOLEAN :
         IF fault
         THEN /\ Issue(p, "GetOperation",
                       [OperationId |-> operation[p], by |-> "waiter"], "ClientError")
              /\ Finish(p, fail_json(params[p].name, "WaiterError"))
         ELSE /\ Issue(p, "GetOperation",
                       [OperationId |-> operation[p], by |-> "waiter"],
                       Accepts(operations[operation[p]].Status))
              /\ WaiterNext(p, operations[operation[p]].Status, attempts[p] + 1)
    /\ UNCHANGED <<params, namespaces, operations, existing, operation,
                   namespace_id, snapshot, mode>>

\* 244-245 / 267-268: the operation is read once more for its target
GetOperation(p) ==
    /\ pc[p] = "get_operation"
    /\ \E fault \in BOOLEAN :
         IF fault
         THEN /\ Issue(p, "GetOperation",
                       [OperationId |-> operation[p], by |-> "create"], "ClientError")
              /\ Finish(p, fail_json(params[p].name, "ClientError"))
              /\ UNCHANGED namespace_id
         ELSE /\ Issue(p, "GetOperation",
                       [OperationId |-> operation[p], by |-> "create"], "ok")
              /\ namespace_id' =
                    [namespace_id EXCEPT ![p] = operations[operation[p]].Target]
              /\ Goto(p, "get_created")
    /\ UNCHANGED <<params, namespaces, operations, existing, operation,
                   attempts, snapshot, mode>>

\* variant with a compensating call the code does not have: when the fetch of
\* the created namespace fails, the namespace is deleted again
GetCreated_rollback(p) ==
    /\ pc[p] = "get_created"
    /\ LET id == namespace_id[p]
       IN \E fault \in BOOLEAN :
               IF fault \/ ~Exists(id)
               THEN /\ calls' = [calls EXCEPT ![p] =
                         Append(Append(@, Call("GetNamespace", [Id |-> id], "ClientError")),
                                Call("DeleteNamespace", [Id |-> id], "ok"))]
                    /\ namespaces' = {n \in namespaces : n.Id # id}
                    /\ Finish(p, fail_json(params[p].name, "ClientError"))
               ELSE /\ Issue(p, "GetNamespace", [Id |-> id], "ok")
                    /\ Finish(p, exit_json(exit_created(
                            create_namespace_result(GetNamespaceResponse(id).Namespace))))
                    /\ UNCHANGED namespaces
    /\ UNCHANGED <<params, operations, existing, operation,
                   attempts, namespace_id, snapshot, mode>>

\* 246-247 / 269-270, then create_namespace's jsonize and main 328
GetCreated(p) ==
    /\ pc[p] = "get_created"
    /\ LET id == namespace_id[p]
       IN \E fault \in BOOLEAN :
               IF fault \/ ~Exists(id)
               THEN /\ Issue(p, "GetNamespace", [Id |-> id], "ClientError")
                    /\ Finish(p, fail_json(params[p].name, "ClientError"))
               ELSE /\ Issue(p, "GetNamespace", [Id |-> id], "ok")
                    /\ Finish(p, exit_json(exit_created(
                            create_namespace_result(GetNamespaceResponse(id).Namespace))))
    /\ UNCHANGED <<params, namespaces, operations, existing, operation,
                   attempts, namespace_id, snapshot, mode>>

\* faulty variant: the change is reported whether or not the delete went through
Delete_reports_anyway(p) ==
    /\ pc[p] = "delete"
    /\ LET id == existing[p][1].Id
       IN \E fault \in BOOLEAN :
               IF fault \/ ~Exists(id)
               THEN /\ Issue(p, "DeleteNamespace", [Id |-> id], "ClientError")
                    /\ Finish(p, exit_json([changed |-> TRUE]))
                    /\ UNCHANGED namespaces
               ELSE /\ Issue(p, "DeleteNamespace", [Id |-> id], "ok")
                    /\ namespaces' = {n \in namespaces : n.Id # id}
                    /\ Finish(p, exit_json([changed |-> TRUE]))
    /\ UNCHANGED <<params, operations, existing, operation, attempts,
                   namespace_id, snapshot, mode>>

\* main 338-339: delete_namespace(existing[0]['Id']), then changed=True
Delete(p) ==
    /\ pc[p] = "delete"
    /\ LET id == existing[p][1].Id
       IN \E fault \in BOOLEAN :
               IF fault \/ ~Exists(id)
               THEN /\ Issue(p, "DeleteNamespace", [Id |-> id], "ClientError")
                    /\ Finish(p, fail_json(params[p].name, "ClientError"))
                    /\ UNCHANGED namespaces
               ELSE /\ Issue(p, "DeleteNamespace", [Id |-> id], "ok")
                    /\ namespaces' = {n \in namespaces : n.Id # id}
                    /\ Finish(p, exit_json([changed |-> TRUE]))
    /\ UNCHANGED <<params, operations, existing, operation, attempts,
                   namespace_id, snapshot, mode>>

-----------------------------------------------------------------------------
(* The remote completes the operations on its own *)

OperationSucceeds(i) ==
    /\ operations[i].Status = "SUBMITTED"
    /\ operations' = [operations EXCEPT ![i].Status = "SUCCESS"]
    /\ namespaces' = namespaces \cup
           {[Id |-> operations[i].Target, Name |-> operations[i].Name,
             Type |-> operations[i].Type]}
    /\ UNCHANGED <<params, pc, existing, operation, attempts, namespace_id,
                   result, calls, snapshot, mode>>

OperationFails(i) ==
    /\ operations[i].Status = "SUBMITTED"
    /\ operations' = [operations EXCEPT ![i].Status = "FAIL"]
    /\ UNCHANGED <<params, pc, namespaces, existing, operation, attempts,
                   namespace_id, result, calls, snapshot, mode>>

Next ==
    \/ \E p \in Procs : Start(p)
    \/ \E p \in Procs : Lookup(p)
    \/ \E p \in Procs : GetExisting(p)
    \/ \E p \in Procs : Create(p)
    \/ \E p \in Procs : WaiterPoll(p)
    \/ \E p \in Procs : GetOperation(p)
    \/ \E p \in Procs : GetCreated(p)
    \/ \E p \in Procs : Delete(p)
    \/ \E i \in DOMAIN operations : OperationSucceeds(i)
    \/ \E i \in DOMAIN operations : OperationFails(i)

Spec == Init /\ [][Next]_vars

SpecTwice == InitTwice /\ [][Next]_vars

\* the next statement of invocation p: main() is sequential code, and each
\* statement is a local computation or a client call
Step(p) ==
    \/ Start(p)
    \/ Lookup(p)
    \/ GetExisting(p)
    \/ Create(p)
    \/ WaiterPoll(p)
    \/ GetOperation(p)
    \/ GetCreated(p)
    \/ Delete(p)

\* every client call returns (with a response or an error) and the process
\* runs on; the remote is under no obligation to complete an operation
SpecFair == Spec /\ \A p \in Procs : WF_vars(Step(p))

SpecConcurrent == InitConcurrent /\ [][Next]_vars

-----------------------------------------------------------------------------
(* Properties *)

Done(p) == pc[p] = "done"
Succeeded(p) == result[p].kind = "exit"
Failed(p) == result[p].kind = "fail"

\* the ListNamespaces call of p returned
Looked(p) == Len(calls[p]) >= 1 /\ calls[p][1].outcome = "ok"

\* the namespaces matching (name, type) that the remote held when p listed
Matches(p) ==
    {n \in snapshot[p] :
        /\ n.Name = params[p].name
        /\ params[p].type # None => n.Type = params[p].type}

\* the last call of p raised a service or transport error
LastCallFailed(p) ==
    /\ Len(calls[p]) >= 1
    /\ calls[p][Len(calls[p])].outcome = "ClientError"

\* state=present with the arguments the documentation asks for
ValidPresent(p) ==
    /\ params[p].state = "present"
    /\ params[p].type # None
    /\ params[p].type = "DNS_PRIVATE" => params[p].vpc_id # None

\* C1: Reconcile(present) with exactly one remote namespace matching
\* (name, type): no create call is issued; the only GetNamespace call carries
\* the id of that namespace; the invocation ends with changed=false and a
\* namespace output, unless the GetNamespace call itself fails.
C1_OneMatchFetchedUnchanged ==
    \A p \in Procs :
        (params[p].state = "present" /\ Looked(p) /\ Cardinality(Matches(p)) = 1) =>
            LET m == CHOOSE n \in Matches(p) : TRUE
                gets == CallsOf(p, "GetNamespace")
            IN /\ Len(CreateCalls(p)) = 0
               /\ Len(gets) <= 1
               /\ \A i \in DOMAIN gets : gets[i].args.Id = m.Id
               /\ Done(p) =>
                    /\ Len(gets) = 1
                    /\ \/ /\ Succeeded(p)
                          /\ DOMAIN result[p].kwargs = {"changed", "namespace"}
                          /\ result[p].kwargs.changed = FALSE
                          /\ result[p].kwargs.namespace.id = m.Id
                       \/ Failed(p) /\ LastCallFailed(p)

C1_Witness ==
    \E p \in Procs :
        /\ params[p].state = "present"
        /\ Cardinality(Matches(p)) = 1
        /\ Succeeded(p)
        /\ result[p].kwargs.changed = FALSE
        /\ Len(CallsOf(p, "GetNamespace")) = 1

\* C2: Reconcile(present) with valid arguments and no namespace matching
\* (name, type): exactly one create call is issued, private with the Vpc
\* field for DNS_PRIVATE and public without it for DNS_PUBLIC, and the
\* invocation reports changed=true unless the remote fails or the wait runs out.
C2_NoMatchOneCreateChanged ==
    \A p \in Procs :
        (ValidPresent(p) /\ Looked(p) /\ Matches(p) = {}) =>
            LET creates == CreateCalls(p)
            IN /\ Len(creates) <= 1
               /\ \A i \in DOMAIN creates :
                    IF params[p].type = "DNS_PRIVATE"
                    THEN /\ creates[i].api = "CreatePrivateDnsNamespace"
                         /\ "Vpc" \in DOMAIN creates[i].args
                         /\ creates[i].args.Vpc = params[p].vpc_id
                    ELSE /\ creates[i].api = "CreatePublicDnsNamespace"
                         /\ "Vpc" \notin DOMAIN creates[i].args
               /\ Done(p) =>
                    /\ Len(creates) = 1
                    /\ \/ Succeeded(p) /\ result[p].kwargs.changed = TRUE
                       \/ Failed(p) /\ result[p].cause \in {"ClientError", "WaiterError"}

\* C3 as stated: of two successive invocations of Reconcile(present) with
\* identical inputs, for every value of wait, against a remote that starts
\* with no matching namespace, the first reports changed=true and the second
\* changed=false, and the remote ends with exactly one such namespace (here
\* even granted that both invocations end successfully).
C3_OriginalTrueThenFalse ==
    (/\ params[1].state = "present"
     /\ Looked(1) /\ Matches(1) = {}
     /\ Done(1) /\ Done(2) /\ Succeeded(1) /\ Succeeded(2))
    => /\ result[1].kwargs.changed = TRUE
       /\ result[2].kwargs.changed = FALSE
       /\ Cardinality({n \in namespaces : n.Name = params[1].name
                                          /\ n.Type = params[1].type}) = 1

\* the namespace that the create of invocation p is to produce
CreatedId(p) == operations[operation[p]].Target

\* C3 amended: if the first invocation ends successfully it reports
\* changed=true; with wait=true the namespace it created then exists; and if
\* that namespace exists when the second invocation lists, the second issues
\* no create call, reports changed=false unless its own call fails, and the
\* remote holds exactly one namespace of that (name, type).
C3_IdempotentOnceCreated ==
    (/\ params[1].state = "present"
     /\ Looked(1) /\ Matches(1) = {}
     /\ Succeeded(1))
    => /\ result[1].kwargs.changed = TRUE
       /\ operation[1] # 0
       /\ params[1].wait => Exists(CreatedId(1))
       /\ (params[1].wait /\ Looked(2)) => \E n \in snapshot[2] : n.Id = CreatedId(1)
       /\ (Looked(2) /\ \E n \in snapshot[2] : n.Id = CreatedId(1)) =>
            /\ Len(CreateCalls(2)) = 0
            /\ Cardinality({n \in namespaces : n.Name = params[1].name
                                               /\ n.Type = params[1].type}) = 1
            /\ Done(2) =>
                 \/ Succeeded(2) /\ result[2].kwargs.changed = FALSE
                 \/ Failed(2) /\ LastCallFailed(2)

C3_Witness ==
    /\ params[1].state = "present" /\ params[1].wait
    /\ Matches(1) = {}
    /\ Succeeded(1) /\ result[1].kwargs.changed = TRUE
    /\ Succeeded(2) /\ result[2].kwargs.changed = FALSE

\* C4: Reconcile(absent) with exactly one remote namespace matching
\* (name, type): no create call is issued, exactly one DeleteNamespace call is
\* issued, with the id of the matched namespace, and the invocation reports
\* changed=true unless the delete call itself fails.
C4_OneMatchDeleted ==
    \A p \in Procs :
        (params[p].state = "absent" /\ Looked(p) /\ Cardinality(Matches(p)) = 1) =>
            LET m == CHOOSE n \in Matches(p) : TRUE
                dels == CallsOf(p, "DeleteNamespace")
            IN /\ Len(CreateCalls(p)) = 0
               /\ Len(dels) <= 1
               /\ \A i \in DOMAIN dels : dels[i].args.Id = m.Id
               /\ Done(p) =>
                    /\ Len(dels) = 1
                    /\ \/ Succeeded(p) /\ result[p].kwargs.changed = TRUE
                       \/ Failed(p) /\ LastCallFailed(p)

C4_Witness ==
    \E p \in Procs :
        /\ params[p].state = "absent"
        /\ Cardinality(Matches(p)) = 1
        /\ Succeeded(p) /\ result[p].kwargs.changed = TRUE
        /\ Len(CallsOf(p, "DeleteNamespace")) = 1
        /\ \A n \in Matches(p) : ~Exists(n.Id)

\* C5: a create with wait=false issues no GetOperation and no GetNamespace
\* call, and its output is changed=true with a field operation_id holding the
\* operation id, and no field namespace.
C5_UnwaitedReportsOperationId ==
    \A p \in Procs :
        (/\ params[p].state = "present" /\ ~params[p].wait
         /\ Len(CreateCalls(p)) = 1 /\ CreateCalls(p)[1].outcome = "ok"
         /\ Done(p))
        => /\ Len(CallsOf(p, "GetOperation")) = 0
           /\ Len(CallsOf(p, "GetNamespace")) = 0
           /\ Succeeded(p)
           /\ result[p].kwargs.changed = TRUE
           /\ "operation_id" \in DOMAIN result[p].kwargs
           /\ "namespace" \notin DOMAIN result[p].kwargs

\* the polls of the waiter, and whether one of them saw SUCCESS
WaiterPolls(p) ==
    SelectSeq(calls[p], LAMBDA c : c.api = "GetOperation" /\ c.args.by = "waiter")
SuccessObserved(p) ==
    \E i \in DOMAIN WaiterPolls(p) : WaiterPolls(p)[i].outcome = "success"

\* the invocation created with wait=true
WaitedCreate(p) ==
    params[p].state = "present" /\ params[p].wait /\ operation[p] # 0

\* C6: a create with wait=true polls the operation at most maxAttempts times
\* (GetOperation is called once more to read the target), takes only the
\* status SUCCESS for success and stops polling then, issues GetNamespace only
\* after success, at most once and with the operation's target id, and then
\* reports changed=true with that namespace unless one of these calls fails.
C6_PollThenFetchOnce ==
    \A p \in Procs :
        WaitedCreate(p) =>
            LET polls == WaiterPolls(p)
                gets == CallsOf(p, "GetNamespace")
                op == operations[operation[p]]
            IN /\ Len(polls) <= maxAttempts
               /\ Len(CallsOf(p, "GetOperation")) <= Len(polls) + 1
               /\ \A i \in DOMAIN polls : polls[i].outcome = "success" => i = Len(polls)
               /\ SuccessObserved(p) => op.Status = "SUCCESS"
               /\ Len(gets) <= 1
               /\ \A i \in DOMAIN gets : gets[i].args.Id = op.Target
               /\ Len(gets) = 1 => SuccessObserved(p)
               /\ Succeeded(p) =>
                    /\ SuccessObserved(p)
                    /\ Len(gets) = 1
                    /\ result[p].kwargs.changed = TRUE
                    /\ result[p].kwargs.namespace.id = op.Target
                    /\ result[p].kwargs.namespace.name = params[p].name
               /\ (Done(p) /\ SuccessObserved(p)) =>
                    Succeeded(p) \/ (Failed(p) /\ LastCallFailed(p))

C6_Witness ==
    \E p \in Procs :
        /\ WaitedCreate(p)
        /\ Len(WaiterPolls(p)) = maxAttempts
        /\ SuccessObserved(p)
        /\ Succeeded(p)
        /\ Len(CallsOf(p, "GetNamespace")) = 1

\* C7: in a create with wait=true, as long as no poll has seen SUCCESS the
\* invocation has not succeeded and has issued no GetNamespace call; once the
\* attempts are used up without SUCCESS (operation pending or failed) it has
\* ended in the reported failure.
C7_ExhaustionFails ==
    \A p \in Procs :
        (WaitedCreate(p) /\ ~SuccessObserved(p)) =>
            /\ ~Succeeded(p)
            /\ Len(CallsOf(p, "GetNamespace")) = 0
            /\ Len(CallsOf(p, "GetOperation")) = Len(WaiterPolls(p))
            /\ Done(p) => Failed(p) /\ result[p].cause = "WaiterError"
            /\ Len(WaiterPolls(p)) >= maxAttempts =>
                 /\ Done(p)
                 /\ Failed(p)
                 /\ result[p].kwargs.msg.name = params[p].name

C7_Witness ==
    \E p \in Procs :
        /\ WaitedCreate(p) /\ ~SuccessObserved(p)
        /\ Len(WaiterPolls(p)) = maxAttempts
        /\ \A i \in DOMAIN calls[p] : ~Raised(calls[p][i])
        /\ Failed(p)
        /\ operations[operation[p]].Status = "FAIL"

\* C8: an invocation with state=present and no type, or with type=DNS_PRIVATE
\* and no vpc_id, is rejected as invalid before any remote call is issued.
C8_InvalidRejectedBeforeCalls ==
    \A p \in Procs :
        (\/ params[p].state = "present" /\ params[p].type = None
         \/ params[p].type = "DNS_PRIVATE" /\ params[p].vpc_id = None)
        => /\ calls[p] = <<>>
           /\ pc[p] # "idle" => Done(p) /\ result[p].kind = "invalid"

\* C9: every invocation that passed argument validation and did not succeed
\* ended in the reported failure whose message embeds the namespace name;
\* none ended in an unhandled error.
C9_FailuresReported ==
    \A p \in Procs :
        (Done(p) /\ result[p].kind \notin {"exit", "invalid"})
        => /\ result[p].kind = "fail"
           /\ result[p].kwargs.msg.name = params[p].name

\* the timestamp fields of the remote representation of a namespace
TimestampFields == {"CreateDate"}

\* C10: the namespace an invocation returns after fetching it has exactly the
\* fields of the remote representation, in the caller's naming, with the same
\* values, except that every timestamp field is in string form.
C10_FetchedNormalized ==
    \A p \in Procs :
        (/\ Succeeded(p)
         /\ Len(CallsOf(p, "GetNamespace")) = 1
         /\ Exists(CallsOf(p, "GetNamespace")[1].args.Id))
        => LET remote == GetNamespaceResponse(CallsOf(p, "GetNamespace")[1].args.Id).Namespace
               out == result[p].kwargs.namespace
           IN /\ DOMAIN out = {SnakeKey[k] : k \in DOMAIN remote}
              /\ \A k \in DOMAIN remote :
                    IF k \in TimestampFields
                    THEN out[SnakeKey[k]] = Str(remote[k])
                    ELSE out[SnakeKey[k]] = remote[k]

\* C11: every create call carries the field CreatorRequestId if and only if
\* creator_request_id was provided, and the API's field Description if and
\* only if description was provided; a field that is carried holds the
\* caller's value; for the public and for the private create.
C11_OptionalCreateFields ==
    \A p \in Procs :
        \A i \in DOMAIN CreateCalls(p) :
            LET sent == CreateCalls(p)[i].args
            IN /\ "CreatorRequestId" \in DOMAIN sent <=> params[p].creator_request_id # None
               /\ "CreatorRequestId" \in DOMAIN sent =>
                      sent.CreatorRequestId = params[p].creator_request_id
               /\ "Description" \in DOMAIN sent <=> params[p].description # None
               /\ "Description" \in DOMAIN sent =>
                      sent.Description = params[p].description

\* the invocation took the create branch of state=present with wait=true
Creation(p) ==
    /\ params[p].state = "present" /\ params[p].wait
    /\ Looked(p) /\ existing[p] = <<>>

\* the create call of p returned an operation id
CreateAccepted(p) ==
    \E i \in DOMAIN calls[p] :
        calls[p][i].api \in CreateApis /\ calls[p][i].outcome = "ok"

\* where a creation is in the state machine of the creation
CreationState(p) ==
    IF Done(p) THEN (IF Succeeded(p) THEN "NamespaceFetched" ELSE "Error")
    ELSE IF SuccessObserved(p) THEN "OperationSucceeded"
    ELSE IF CreateAccepted(p) THEN "OperationPending"
    ELSE "NotRequested"

StatedEdges ==
    { <<"NotRequested", "OperationPending">>,
      <<"OperationPending", "OperationSucceeded">>,
      <<"OperationSucceeded", "NamespaceFetched">>,
      <<"OperationPending", "Error">> }

\* the error state is also entered when the create call itself fails and when
\* a call after the observed SUCCESS fails
CodeEdges ==
    StatedEdges \cup { <<"NotRequested", "Error">>,
                       <<"OperationSucceeded", "Error">> }

\* a create call that returned, then a poll that saw SUCCESS, then the fetch
FetchedInOrder(p) ==
    \E i, j, k \in DOMAIN calls[p] :
        /\ i < j /\ j < k
        /\ calls[p][i].api \in CreateApis /\ calls[p][i].outcome = "ok"
        /\ calls[p][j].api = "GetOperation" /\ calls[p][j].args.by = "waiter"
        /\ calls[p][j].outcome = "success"
        /\ calls[p][k].api = "GetNamespace" /\ calls[p][k].outcome = "ok"

\* one step of a creation seen through the state machine with the given edges
CreationStep(p, edges) ==
    Creation(p) =>
        /\ \/ CreationState(p)' = CreationState(p)
           \/ <<CreationState(p), CreationState(p)'>> \in edges
        /\ CreationState(p)' = "NamespaceFetched" => FetchedInOrder(p)'
        /\ CreationState(p) \in {"NamespaceFetched", "Error"} =>
               calls'[p] = calls[p]

\* C12 as stated: a creation with wait=true moves only along NotRequested ->
\* OperationPending -> OperationSucceeded -> NamespaceFetched or from
\* OperationPending to the terminal error state; NamespaceFetched is reached
\* only after a create call and a poll that observed SUCCESS; no remote call
\* is issued once NamespaceFetched or the error state is reached.
C12_OriginalStatedEdgesOnly ==
    [][\A p \in Procs : CreationStep(p, StatedEdges)]_vars

\* C12 amended: as stated, with two more moves into the terminal error state:
\* from NotRequested when the create call fails, and from OperationSucceeded
\* when the GetOperation or GetNamespace call after the wait fails.
C12_CreationStateMachine ==
    [][\A p \in Procs : CreationStep(p, CodeEdges)]_vars

C12_Witness ==
    \E p \in Procs :
        /\ Creation(p)
        /\ CreationState(p) = "NamespaceFetched"
        /\ FetchedInOrder(p)
        /\ Len(WaiterPolls(p)) > 1

\* the create of p was accepted with wait=true and its operation is pending
PendingCreate(p) ==
    WaitedCreate(p) /\ operations[operation[p]].Status = "SUBMITTED"

\* the wait of p ended in the reported failure within the attempt budget,
\* and with the whole budget used when no poll raised
BudgetFailure(p) ==
    /\ Done(p) /\ Failed(p) /\ result[p].cause = "WaiterError"
    /\ Len(WaiterPolls(p)) <= maxAttempts
    /\ Len(CallsOf(p, "GetNamespace")) = 0
    /\ (\A i \in DOMAIN calls[p] : ~Raised(calls[p][i])) =>
           Len(WaiterPolls(p)) = maxAttempts

\* C13: provided each remote call returns, the invocation eventually ends
\* (exit_json, fail_json, rejected arguments or an uncaught exception), and a
\* create with wait=true whose operation stays pending forever ends in the
\* reported failure after at most maxAttempts polls.
C13_Terminates ==
    /\ <>Done(1)
    /\ \A p \in Procs : (pc[p] # "idle") ~> Done(p)
    /\ \A p \in Procs : <>[]PendingCreate(p) => <>BudgetFailure(p)

C13_Witness ==
    \E p \in Procs :
        /\ PendingCreate(p)
        /\ BudgetFailure(p)
        /\ \A i \in DOMAIN calls[p] : ~Raised(calls[p][i])

\* state=absent and the remote held no namespace matching (name, type) when
\* the invocation listed
AbsentNoMatch(p) ==
    params[p].state = "absent" /\ Looked(p) /\ Matches(p) = {}

\* C14 as stated: Reconcile(absent) with no matching namespace ends without
\* changed=false and has issued a DeleteNamespace call (with an undefined id).
C14_OriginalDeleteAttempted ==
    \A p \in Procs :
        (AbsentNoMatch(p) /\ Done(p)) =>
            /\ ~(Succeeded(p) /\ result[p].kwargs.changed = FALSE)
            /\ Len(CallsOf(p, "DeleteNamespace")) = 1

\* C14 amended: Reconcile(absent) with no matching namespace issues no call
\* after ListNamespaces, in particular no DeleteNamespace call; it ends in
\* the reported failure (IndexError, message with the namespace name), never
\* in success with or without a change, and leaves the remote as it was.
C14_NoMatchFailsWithoutDelete ==
    \A p \in Procs :
        AbsentNoMatch(p) =>
            /\ Len(calls[p]) = 1
            /\ Len(CallsOf(p, "DeleteNamespace")) = 0
            /\ Done(p) /\ Failed(p)
            /\ result[p].cause = "IndexError"
            /\ result[p].kwargs.msg.name = params[p].name
            /\ namespaces = snapshot[p]

C14_Witness ==
    \E p \in Procs :
        /\ AbsentNoMatch(p)
        /\ snapshot[p] # {}
        /\ Failed(p) /\ result[p].cause = "IndexError"
        /\ Len(CallsOf(p, "DeleteNamespace")) = 0

\* the calls that only read the remote
ReadApis == {"ListNamespaces", "GetNamespace", "GetOperation"}

\* C15: whenever at least one namespace matching (name, type) exists when
\* Reconcile(present) lists, the invocation issues only reading calls (no
\* create, no delete; the module has no update call), starts no operation and
\* leaves the remote namespaces as they were, whatever description, vpc_id
\* or creator_request_id the caller gives.
C15_ExistingLeftAlone ==
    \A p \in Procs :
        (params[p].state = "present" /\ Looked(p) /\ Matches(p) # {}) =>
            /\ \A i \in DOMAIN calls[p] : calls[p][i].api \in ReadApis
            /\ Len(CreateCalls(p)) = 0
            /\ Len(CallsOf(p, "DeleteNamespace")) = 0
            /\ operations = <<>>
            /\ namespaces = snapshot[p]

C15_Witness ==
    \E p \in Procs :
        /\ params[p].state = "present" /\ Looked(p) /\ Matches(p) # {}
        /\ params[p].description # None
        /\ params[p].creator_request_id # None
        /\ params[p].vpc_id # None
        /\ Done(p)
        /\ namespaces = snapshot[p]

\* the namespaces of the requested name and type that the remote holds
Requested(p) ==
    {n \in namespaces : n.Name = params[p].name /\ n.Type = params[p].type}

\* no DeleteNamespace call of any invocation went through
NothingDeleted ==
    \A p \in Procs : \A i \in DOMAIN calls[p] :
        calls[p][i].api = "DeleteNamespace" => calls[p][i].outcome # "ok"

\* C16: two invocations on the same name and type run at the same time
\* without any coordination: an invocation of Reconcile(present) that saw
\* zero matches issues its create call whatever the other one has done by
\* then; two accepted creates are two operations with two targets, and when
\* both succeed the remote holds two namespaces of that (name, type); a
\* Reconcile(absent) that saw zero matches ends (in the reported failure)
\* without a delete call, and unless a delete went through every create that
\* succeeded has left its namespace on the remote.
C16_UncoordinatedCreates ==
    /\ \A p \in Procs :
         (/\ params[p].state = "present"
          /\ Looked(p) /\ Matches(p) = {}
          /\ pc[p] # "create")
         => Len(CreateCalls(p)) = 1
    /\ (operation[1] # 0 /\ operation[2] # 0) =>
         /\ operation[1] # operation[2]
         /\ CreatedId(1) # CreatedId(2)
         /\ (/\ operations[operation[1]].Status = "SUCCESS"
             /\ operations[operation[2]].Status = "SUCCESS")
            => Cardinality(Requested(1)) = 2
    /\ \A p \in Procs :
         (params[p].state = "absent" /\ Looked(p) /\ Matches(p) = {}) =>
            /\ Done(p) /\ Failed(p)
            /\ Len(CallsOf(p, "DeleteNamespace")) = 0
    /\ NothingDeleted =>
         \A i \in DOMAIN operations :
            operations[i].Status = "SUCCESS" => Exists(operations[i].Target)

\* both invocations saw zero matches, both created, both report changed=true,
\* and the remote holds two namespaces of the same name and type
C16_Witness ==
    /\ \A p \in Procs :
         /\ params[p].state = "present"
         /\ Looked(p) /\ Matches(p) = {}
         /\ Len(CreateCalls(p)) = 1
         /\ Succeeded(p) /\ result[p].kwargs.changed = TRUE
    /\ Cardinality(Requested(1)) = 2

\* Reconcile(absent) ran while the create of the other invocation was in
\* flight, has reported its result, and the namespace is on the remote
C16_DeleteRaceReached ==
    /\ params[1].state = "present" /\ params[2].state = "absent"
    /\ operation[1] # 0
    /\ Looked(2) /\ Done(2)
    /\ Len(calls[1]) >= 2 /\ Len(calls[2]) = 1
    /\ Exists(CreatedId(1))
    /\ Requested(2) # {}

\* C17: a create with wait=true that ended in failure has issued, besides the
\* lookup and its one create call, only GetOperation and GetNamespace calls,
\* in particular no DeleteNamespace call; the operation is left to the remote,
\* and once it has succeeded the namespace exists although the invocation
\* reported failure.
C17_NoRollback ==
    \A p \in Procs :
        (WaitedCreate(p) /\ Failed(p)) =>
            /\ Len(CallsOf(p, "DeleteNamespace")) = 0
            /\ Len(CreateCalls(p)) = 1
            /\ \A i \in DOMAIN calls[p] :
                   calls[p][i].api \in ReadApis \cup CreateApis
            /\ operations[operation[p]].Status = "SUCCESS" => Exists(CreatedId(p))

\* the wait ran out while the operation was pending, the invocation reported
\* the failure, and the namespace came to exist afterwards
C17_Witness ==
    \E p \in Procs :
        /\ WaitedCreate(p) /\ Failed(p)
        /\ result[p].cause = "WaiterError"
        /\ Len(WaiterPolls(p)) = maxAttempts /\ ~SuccessObserved(p)
        /\ Exists(CreatedId(p))
        /\ Requested(p) # {}

\* C18: an invocation of Reconcile(absent) issues at most one DeleteNamespace
\* call, as its second call, right after a ListNamespaces call that returned;
\* the id it carries is the id of a namespace the remote held when listed
\* whose name is the requested name and whose type is the requested type when
\* a type was given; no create call is issued; and changed=true is reported
\* only when that delete call has returned without error, as the last call.
C18_DeleteBoundedTargeted ==
    \A p \in Procs :
        params[p].state = "absent" =>
            LET dels == CallsOf(p, "DeleteNamespace")
            IN /\ Len(dels) <= 1
               /\ Len(CreateCalls(p)) = 0
               /\ \A i \in DOMAIN calls[p] :
                    calls[p][i].api = "DeleteNamespace" =>
                        /\ i = 2
                        /\ calls[p][1].api = "ListNamespaces"
                        /\ calls[p][1].outcome = "ok"
                        /\ \E n \in snapshot[p] :
                             /\ n.Id = calls[p][i].args.Id
                             /\ n.Name = params[p].name
                             /\ params[p].type # None => n.Type = params[p].type
               /\ Succeeded(p) =>
                    /\ result[p].kwargs = [changed |-> TRUE]
                    /\ Len(dels) = 1
                    /\ dels[1].outcome = "ok"
                    /\ calls[p][Len(calls[p])] = dels[1]
                    /\ ~Exists(dels[1].args.Id)

\* no type given, two namespaces of the requested name: one of them is deleted
C18_Witness ==
    \E p \in Procs :
        /\ params[p].state = "absent" /\ params[p].type = None
        /\ Cardinality(Matches(p)) = 2
        /\ Succeeded(p) /\ result[p].kwargs.changed = TRUE
        /\ Len(CallsOf(p, "DeleteNamespace")) = 1
        /\ Cardinality({n \in namespaces : n.Name = params[p].name}) = 1

====
